---- MODULE Spec2Model ----
(***************************************************************************)
(* Model of the capital-call program (programs/capital-call/src/lib.rs).   *)
(*                                                                         *)
(* Every instruction is one atomic action: a transaction either commits    *)
(* all of its effects or none of them.  A failed instruction leaves no     *)
(* trace: its error is the value of the instruction's ...Err operator in   *)
(* the state it was invoked in.  `last` names the last instruction that    *)
(* succeeded.                                                              *)
(* u64 quantities are scaled down to the range 0..MaxU64.                  *)
(***************************************************************************)
EXTENDS Integers, FiniteSets, Sequences, TLC

\* ------------------------------------------------------------------ bounds
\* The largest value of the (scaled) unsigned integer type.
MaxU64 == 12
\* The clock stops advancing here.
MaxTime == 3
\* Tokens every depositor owns at the start.
InitBalance == 3

\* ------------------------------------------------------------- input sets
Depositors == {"alice", "bob"}
StartTimes == {1}
\* The longest duration overflows start_time + duration.
Durations == {0, 1, MaxU64}
Capacities == {0, 3}
\* A capacity that two equal deposits fill, and the amount of each.
EqualCapacities == {4}
EqualAmounts == {2}
Credits == {0, 1}
Amounts == {0, 2, 4}
\* Values the external liquidity pool balance and LP supply may be moved to.
PoolAmounts == {0, 2, 4}
LpSupplies == {0, 1, 2}

\* A capital call is addressed by (config, start_time, capacity); there is
\* one config, so the key is <<start_time, capacity>>.
\* CallKeys are the calls Spec can create (capacity 0 is refused), EqualKeys
\* those of SpecEqual.
CallKeys == StartTimes \X (Capacities \ {0})
EqualKeys == StartTimes \X EqualCapacities
Keys == (StartTimes \X Capacities) \cup EqualKeys
NoKey == <<0, 0>>
NoOne == "-"

Min(a, b) == IF a < b THEN a ELSE b

RECURSIVE SumOver(_, _)
SumOver(S, f) ==
    IF S = {} THEN 0
    ELSE LET x == CHOOSE y \in S : TRUE IN f[x] + SumOver(S \ {x}, f)

\* ------------------------------------------------------------------ state
VARIABLES
    now,        \* Clock::get().unix_timestamp
    calls,      \* CapitalCall account per key
    vouchers,   \* Voucher account per (key, depositor)
    vault,      \* amount of the vault token account per key
    lpTokenPool,\* amount of the lp_token_pool token account per key
    balance,    \* amount of each depositor's token account
    lpBalance,  \* amount of each depositor's LP token account
    destination,\* amount of the token account close() sweeps the vault into
    liquidityPool, \* amount of the external liquidity pool token account
    lpMint,     \* the external LP mint: supply and whether its mint
                \* authority is the program's lp_mint_authority
    last        \* the last instruction and its result

accounts == <<calls, vouchers, vault, lpTokenPool, balance, lpBalance,
              destination, liquidityPool, lpMint>>
vars == <<now, accounts, last>>

\* The CapitalCall account; live = FALSE is "no such account".
NoCall == [live |-> FALSE, start_time |-> 0, end_time |-> 0, capacity |-> 0,
           allocated |-> 0, redeemed |-> 0, token_liquidity |-> 0,
           lp_supply |-> 0, credit_outstanding |-> 0, is_lp_minted |-> FALSE]

\* The Voucher account; open = FALSE is "no such account".
NoVoucher == [open |-> FALSE, amount |-> 0]

\* What `last` holds: the instruction, the capital call, the signer, the
\* amount (deposit: the amount asked for; refund, close: tokens paid out;
\* mint_lp_tokens, claim: LP tokens minted or paid out) and "Ok" or, for an
\* instruction that returned Ok(()) without doing anything, "NoOp".
Result(op, k, d, amt, res) ==
    [op |-> op, k |-> k, d |-> d, amt |-> amt, res |-> res]

Init ==
    /\ now = 0
    /\ calls = [k \in Keys |-> NoCall]
    /\ vouchers = [k \in Keys |-> [d \in Depositors |-> NoVoucher]]
    /\ vault = [k \in Keys |-> 0]
    /\ lpTokenPool = [k \in Keys |-> 0]
    /\ balance = [d \in Depositors |-> InitBalance]
    /\ lpBalance = [d \in Depositors |-> 0]
    /\ destination = 0
    /\ liquidityPool = 0
    /\ lpMint = [supply |-> 0, authority_ok |-> FALSE]
    /\ last = Result("init", NoKey, NoOne, 0, "Ok")

\* ------------------------------------------------------------ environment
\* The trusted clock advances.
Tick ==
    /\ now < MaxTime
    /\ now' = now + 1
    /\ last' = Result("tick", NoKey, NoOne, 0, "Ok")
    /\ UNCHANGED accounts

\* LP tokens the program's own accounts and the depositors hold: the mint's
\* supply can never be below it.
LpHeld == SumOver(Keys, lpTokenPool) + SumOver(Depositors, lpBalance)

\* Outside activity changes the liquidity pool's balance.
PoolChange(v) ==
    /\ v # liquidityPool
    /\ liquidityPool' = v
    /\ last' = Result("pool", NoKey, NoOne, 0, "Ok")
    /\ UNCHANGED <<now, calls, vouchers, vault, lpTokenPool, balance,
                   lpBalance, destination, lpMint>>

\* Outside mints and burns change the LP mint's supply.
SupplyChange(v) ==
    /\ v # lpMint.supply
    /\ v >= LpHeld
    /\ lpMint' = [lpMint EXCEPT !.supply = v]
    /\ last' = Result("supply", NoKey, NoOne, 0, "Ok")
    /\ UNCHANGED <<now, calls, vouchers, vault, lpTokenPool, balance,
                   lpBalance, destination, liquidityPool>>

\* The LP mint's owner hands the mint authority to the program's
\* lp_mint_authority; the program never gives it away again.
SetMintAuthority ==
    /\ ~lpMint.authority_ok
    /\ lpMint' = [lpMint EXCEPT !.authority_ok = TRUE]
    /\ last' = Result("authority", NoKey, NoOne, 0, "Ok")
    /\ UNCHANGED <<now, calls, vouchers, vault, lpTokenPool, balance,
                   lpBalance, destination, liquidityPool>>

\* ---------------------------------------------------- create_capital_call
\* start_time + duration: the u64 addition panics when overflow checks are
\* compiled in and wraps otherwise.
EndTimes(start_time, duration) ==
    IF start_time + duration <= MaxU64
    THEN {[res |-> "Ok", val |-> start_time + duration]}
    ELSE {[res |-> "ArithmeticOverflow", val |-> 0],
          [res |-> "Ok", val |-> (start_time + duration) % (MaxU64 + 1)]}

CreateErr(k, start_time, duration, capacity) ==
    IF calls[k].live THEN "AccountAlreadyInUse"
    ELSE IF ~(start_time >= now) THEN "StartTimeMustBeInFuture"
    ELSE IF ~(duration > 0) THEN "DurationNonZero"
    ELSE IF ~(capacity > 0) THEN "CapacityNonZero"
    ELSE "Ok"

create_capital_call(start_time, duration, capacity, credit_outstanding) ==
    LET k == <<start_time, capacity>>
        e == CreateErr(k, start_time, duration, capacity)
    IN \E end \in EndTimes(start_time, duration) :
         LET res == IF e # "Ok" THEN e ELSE end.res IN
         IF res = "Ok"
         THEN /\ calls' = [calls EXCEPT ![k] =
                     [live |-> TRUE, start_time |-> start_time,
                      end_time |-> end.val, capacity |-> capacity,
                      allocated |-> 0, redeemed |-> 0, token_liquidity |-> 0,
                      lp_supply |-> 0,
                      credit_outstanding |-> credit_outstanding,
                      is_lp_minted |-> FALSE]]
              /\ last' = Result("create_capital_call", k, NoOne, 0, "Ok")
              /\ UNCHANGED <<now, vouchers, vault, lpTokenPool, balance,
                             lpBalance, destination, liquidityPool, lpMint>>
         ELSE UNCHANGED vars

\* ----------------------------------------------------- failed instructions
\* (a failed instruction whose account writes are kept)
abort_keeps_writes(before, written) == written

\* An instruction that returns Err fails its transaction: an account it has
\* written by then (`written`) is left as it was (`before`).
abort(before, written) == before

\* ----------------------------------------------------------- token ledger
\* token::transfer of `amount` out of an account holding `from` into one
\* holding `to`.
TransferErr(from, to, amount) ==
    IF from < amount THEN "InsufficientFunds"
    ELSE IF to + amount > MaxU64 THEN "Overflow"
    ELSE "Ok"

\* token::mint_to of `amount`: the supply is a checked u64.
MintToErr(supply, amount) ==
    IF supply + amount > MaxU64 THEN "Overflow" ELSE "Ok"

\* ---------------------------------------------------------------- deposit
\* (a deposit that clamps to the capacity, not to what is left of it)
deposit_amount_capacity(cc, amount) == Min(amount, cc.capacity)

\* (a deposit that forgets the clamp)
deposit_amount_unclamped(cc, amount) == amount

\* "Reduce amount if this tx fills vault"
deposit_amount(cc, amount) == Min(amount, cc.capacity - cc.allocated)

\* (an assignment where the code adds)
add_allocated_assign(cc, amount) == amount

\* capital_call.allocated += amount
add_allocated(cc, amount) == cc.allocated + amount

\* (init_if_needed: an existing voucher is accepted)
voucher_init_if_needed(v) == "Ok"

\* #[account(init, ...)] voucher: creating an account that exists fails.
voucher_init(v) == IF v.open THEN "AccountAlreadyInUse" ELSE "Ok"

\* (the amount checked first, the capacity before the window)
deposit_require_amount_first(cc, amount) ==
    IF ~(amount > 0) THEN "AmountNonZero"
    ELSE IF ~(cc.capacity > cc.allocated) THEN "CapitalCallAlreadyFullyFunded"
    ELSE IF ~(now >= cc.start_time) THEN "CapitalCallNotStarted"
    ELSE IF ~(now < cc.end_time) THEN "CapitalCallEnded"
    ELSE "Ok"

\* The four require! of deposit.
deposit_require(cc, amount) ==
    IF ~(now >= cc.start_time) THEN "CapitalCallNotStarted"
    ELSE IF ~(now < cc.end_time) THEN "CapitalCallEnded"
    ELSE IF ~(cc.capacity > cc.allocated) THEN "CapitalCallAlreadyFullyFunded"
    ELSE IF ~(amount > 0) THEN "AmountNonZero"
    ELSE "Ok"

DepositErr(k, d, amount) ==
    LET cc == calls[k] IN
    IF ~cc.live THEN "AccountNotInitialized"
    ELSE IF voucher_init(vouchers[k][d]) # "Ok" THEN voucher_init(vouchers[k][d])
    ELSE IF deposit_require(cc, amount) # "Ok" THEN deposit_require(cc, amount)
    ELSE TransferErr(balance[d], vault[k], deposit_amount(cc, amount))

deposit(k, d, amount) ==
    LET cc == calls[k]
        e == DepositErr(k, d, amount)
        a == deposit_amount(cc, amount)
    IN IF e = "Ok"
       THEN /\ balance' = [balance EXCEPT ![d] = @ - a]
            /\ vault' = [vault EXCEPT ![k] = @ + a]
            /\ calls' = [calls EXCEPT ![k].allocated = add_allocated(cc, a)]
            /\ vouchers' = [vouchers EXCEPT ![k][d] = [open |-> TRUE, amount |-> a]]
            /\ last' = Result("deposit", k, d, amount, "Ok")
            /\ UNCHANGED <<now, lpTokenPool, lpBalance, destination,
                           liquidityPool, lpMint>>
       ELSE \* the voucher account is created before the handler runs
            /\ vouchers' = [vouchers EXCEPT ![k][d] =
                    abort(@, IF cc.live /\ voucher_init(@) = "Ok"
                             THEN [open |-> TRUE, amount |-> 0] ELSE @)]
            /\ UNCHANGED <<now, calls, vault, lpTokenPool, balance, lpBalance,
                           destination, liquidityPool, lpMint, last>>

\* ----------------------------------------------------------------- refund
\* (the two require! in the other order)
refund_require_time_first(cc) ==
    IF ~(now >= cc.end_time) THEN "CapitalCallNotEnded"
    ELSE IF ~(cc.capacity > cc.allocated) THEN "CapitalCallIsFullyFunded"
    ELSE "Ok"

\* (a refund that checks the time only)
refund_require_time_only(cc) ==
    IF ~(now >= cc.end_time) THEN "CapitalCallNotEnded" ELSE "Ok"

\* The two require! of refund.
refund_require(cc) ==
    IF ~(cc.capacity > cc.allocated) THEN "CapitalCallIsFullyFunded"
    ELSE IF ~(now >= cc.end_time) THEN "CapitalCallNotEnded"
    ELSE "Ok"

\* (a voucher without `close = authority`)
close_voucher_never(v) == v

\* #[account(mut, close = authority, ...)] voucher: the account is closed
\* when the instruction succeeds.
close_voucher(v) == NoVoucher

\* (a voucher account that is not checked against the signer and the call)
voucher_constraints_none(k, d, va) == "Ok"

\* The constraints of the voucher account of Refund and of Claim: the
\* account passed, the voucher at address va = <<capital call, depositor>>,
\* must be the one derived from this capital call and the signer (seeds,
\* has_one = authority, has_one = capital_call).
voucher_constraints(k, d, va) ==
    IF va # <<k, d>> THEN "ConstraintSeeds" ELSE "Ok"

\* refund of capital call k signed by d, with the voucher at va passed.
RefundErrOn(k, d, va) ==
    LET cc == calls[k]
        voucher == vouchers[va[1]][va[2]]
    IN
    IF ~cc.live THEN "AccountNotInitialized"
    ELSE IF ~voucher.open THEN "AccountNotInitialized"
    ELSE IF voucher_constraints(k, d, va) # "Ok"
         THEN voucher_constraints(k, d, va)
    ELSE IF refund_require(cc) # "Ok" THEN refund_require(cc)
    ELSE TransferErr(vault[k], balance[d], voucher.amount)

refund_voucher(k, d, va) ==
    LET cc == calls[k]
        e == RefundErrOn(k, d, va)
        amount == vouchers[va[1]][va[2]].amount
    IN IF e = "Ok"
       THEN /\ vault' = [vault EXCEPT ![k] = @ - amount]
            /\ balance' = [balance EXCEPT ![d] = @ + amount]
            /\ calls' = [calls EXCEPT ![k].redeemed = @ + amount]
            /\ vouchers' = [vouchers EXCEPT ![va[1]][va[2]] = close_voucher(@)]
            /\ last' = Result("refund", k, d, amount, "Ok")
            /\ UNCHANGED <<now, lpTokenPool, lpBalance, destination,
                           liquidityPool, lpMint>>
       ELSE UNCHANGED vars

\* refund with the signer's own voucher of the call passed.
RefundErr(k, d) == RefundErrOn(k, d, <<k, d>>)

refund(k, d) == refund_voucher(k, d, <<k, d>>)

\* --------------------------------------------------------- mint_lp_tokens
\* (a price that leaves the outstanding credit out)
to_lp_token_u128_without_credit(cc, amount) ==
    (amount * cc.token_liquidity) \div cc.lp_supply

\* The u128 expression of to_lp_token: no product or sum of u64 values
\* overflows it, and the division truncates.
to_lp_token_u128(cc, amount) ==
    (amount * (cc.token_liquidity + cc.credit_outstanding)) \div cc.lp_supply

\* (a conversion back to u64 that truncates, `as u64`)
to_lp_token_truncating(cc, amount) ==
    IF cc.lp_supply = 0 THEN [res |-> "DivideByZero", val |-> 0]
    ELSE [res |-> "Ok", val |-> to_lp_token_u128(cc, amount) % (MaxU64 + 1)]

\* CapitalCall::to_lp_token: the quotient is computed in u128 and converted
\* back to u64; a zero divisor panics.
to_lp_token(cc, amount) ==
    IF cc.lp_supply = 0 THEN [res |-> "DivideByZero", val |-> 0]
    ELSE LET q == to_lp_token_u128(cc, amount)
         IN IF q > MaxU64 THEN [res |-> "CalculationError", val |-> 0]
            ELSE [res |-> "Ok", val |-> q]

\* (the head of mint_lp_tokens without the require! on lp_mint.supply)
mint_require_authority_only ==
    IF ~lpMint.authority_ok THEN "InvalidLpMintAuthority" ELSE "Ok"

\* The two require! at the head of mint_lp_tokens.
mint_require ==
    IF ~lpMint.authority_ok THEN "InvalidLpMintAuthority"
    ELSE IF ~(lpMint.supply > 0) THEN "LpTokenSupplyNonZero"
    ELSE "Ok"

\* "exit from instruction early if capital isn't raised or lp tokens
\* already minted"
mint_early_exit(cc) == cc.capacity # cc.allocated \/ cc.is_lp_minted

\* The capital call with the snapshot taken.
Snapshot(cc) == [cc EXCEPT !.lp_supply = lpMint.supply,
                           !.token_liquidity = liquidityPool]

MintErr(k) ==
    LET cc == calls[k]
        minted == to_lp_token(Snapshot(cc), cc.capacity)
    IN
    IF ~cc.live THEN "AccountNotInitialized"
    ELSE IF mint_require # "Ok" THEN mint_require
    ELSE IF mint_early_exit(cc) THEN "NoOp"
    ELSE IF minted.res # "Ok" THEN minted.res
    ELSE IF MintToErr(lpMint.supply, minted.val) # "Ok"
         THEN MintToErr(lpMint.supply, minted.val)
    ELSE TransferErr(vault[k], liquidityPool, cc.capacity)

\* What mint_lp_tokens has written when it returns: the snapshot is stored
\* before to_lp_token is computed, and the LP tokens are minted before the
\* capital is transferred.
MintWritten(k) ==
    LET cc == calls[k]
        minted == to_lp_token(Snapshot(cc), cc.capacity)
        stored == cc.live /\ mint_require = "Ok" /\ ~mint_early_exit(cc)
        mintedTo == /\ stored /\ minted.res = "Ok"
                    /\ MintToErr(lpMint.supply, minted.val) = "Ok"
    IN [call |-> IF stored THEN Snapshot(cc) ELSE cc,
        supply |-> IF mintedTo THEN lpMint.supply + minted.val
                   ELSE lpMint.supply,
        pool |-> IF mintedTo THEN lpTokenPool[k] + minted.val
                 ELSE lpTokenPool[k]]

mint_lp_tokens(k) ==
    LET cc == calls[k]
        e == MintErr(k)
        minted == to_lp_token(Snapshot(cc), cc.capacity).val
    IN IF e = "Ok"
       THEN /\ calls' = [calls EXCEPT ![k] =
                   [Snapshot(cc) EXCEPT !.is_lp_minted = TRUE]]
            /\ lpMint' = [lpMint EXCEPT !.supply = @ + minted]
            /\ lpTokenPool' = [lpTokenPool EXCEPT ![k] = @ + minted]
            /\ vault' = [vault EXCEPT ![k] = @ - cc.capacity]
            /\ liquidityPool' = liquidityPool + cc.capacity
            /\ last' = Result("mint_lp_tokens", k, NoOne, minted, "Ok")
            /\ UNCHANGED <<now, vouchers, balance, lpBalance, destination>>
       ELSE IF e = "NoOp"
       THEN /\ last' = Result("mint_lp_tokens", k, NoOne, 0, "NoOp")
            /\ UNCHANGED <<now, accounts>>
       ELSE /\ calls' = [calls EXCEPT ![k] = abort(@, MintWritten(k).call)]
            /\ lpMint' = [lpMint EXCEPT !.supply =
                              abort(@, MintWritten(k).supply)]
            /\ lpTokenPool' = [lpTokenPool EXCEPT ![k] =
                                   abort(@, MintWritten(k).pool)]
            /\ UNCHANGED <<now, vouchers, vault, balance, lpBalance,
                           destination, liquidityPool, last>>

\* ------------------------------------------------------------------ claim
\* (a claim priced at the pool's balance and the mint's supply of the moment)
claim_lp_amount_live(cc, amount) == to_lp_token(Snapshot(cc), amount)

\* let lp_amount = capital_call.to_lp_token(amount)?
claim_lp_amount(cc, amount) == to_lp_token(cc, amount)

\* (redeemed counted in LP tokens)
claim_redeemed_lp(cc, amount, lp_amount) == cc.redeemed + lp_amount

\* ctx.accounts.capital_call.redeemed += amount
claim_redeemed(cc, amount, lp_amount) == cc.redeemed + amount

\* claim on capital call k signed by d, with the voucher at va passed.
ClaimErrOn(k, d, va) ==
    LET cc == calls[k]
        voucher == vouchers[va[1]][va[2]]
        lp_amount == claim_lp_amount(cc, voucher.amount)
    IN
    IF ~cc.live THEN "AccountNotInitialized"
    ELSE IF ~voucher.open THEN "AccountNotInitialized"
    ELSE IF voucher_constraints(k, d, va) # "Ok"
         THEN voucher_constraints(k, d, va)
    ELSE IF ~cc.is_lp_minted THEN "LpTokenNotMinted"
    ELSE IF lp_amount.res # "Ok" THEN lp_amount.res
    ELSE TransferErr(lpTokenPool[k], lpBalance[d], lp_amount.val)

claim_voucher(k, d, va) ==
    LET cc == calls[k]
        e == ClaimErrOn(k, d, va)
        amount == vouchers[va[1]][va[2]].amount
        lp_amount == claim_lp_amount(cc, amount).val
    IN IF e = "Ok"
       THEN /\ lpTokenPool' = [lpTokenPool EXCEPT ![k] = @ - lp_amount]
            /\ lpBalance' = [lpBalance EXCEPT ![d] = @ + lp_amount]
            /\ calls' = [calls EXCEPT ![k].redeemed =
                              claim_redeemed(cc, amount, lp_amount)]
            /\ vouchers' = [vouchers EXCEPT ![va[1]][va[2]] = close_voucher(@)]
            /\ last' = Result("claim", k, d, lp_amount, "Ok")
            /\ UNCHANGED <<now, vault, balance, destination, liquidityPool,
                           lpMint>>
       ELSE UNCHANGED vars

\* claim with the signer's own voucher of the call passed.
ClaimErr(k, d) == ClaimErrOn(k, d, <<k, d>>)

claim(k, d) == claim_voucher(k, d, <<k, d>>)

\* ------------------------------------------------------------------ close
\* The settlement checks of close.
close_require(cc) ==
    IF ~cc.is_lp_minted
    THEN IF now > cc.end_time
         THEN IF ~(cc.allocated = cc.redeemed)
              THEN "CapitalCallHasToBeFullyRefunded" ELSE "Ok"
         ELSE "Ok"
    ELSE IF ~(cc.allocated = cc.redeemed)
         THEN "LpTokensHasToBeFullyDistributed" ELSE "Ok"

CloseErr(k) ==
    LET cc == calls[k] IN
    IF ~cc.live THEN "AccountNotInitialized"
    ELSE IF close_require(cc) # "Ok" THEN close_require(cc)
    ELSE TransferErr(vault[k], destination, vault[k])

close(k) ==
    LET e == CloseErr(k)
    IN IF e = "Ok"
       THEN /\ destination' = destination + vault[k]
            /\ vault' = [vault EXCEPT ![k] = 0]
            /\ lpMint' = [lpMint EXCEPT !.supply = @ - lpTokenPool[k]]
            /\ lpTokenPool' = [lpTokenPool EXCEPT ![k] = 0]
            /\ calls' = [calls EXCEPT ![k] = NoCall]
            /\ last' = Result("close", k, NoOne, vault[k], "Ok")
            /\ UNCHANGED <<now, vouchers, balance, lpBalance, liquidityPool>>
       ELSE UNCHANGED vars

\* ------------------------------------------------------------ the program
Next ==
    \/ Tick
    \/ \E v \in PoolAmounts : PoolChange(v)
    \/ \E v \in LpSupplies : SupplyChange(v)
    \/ SetMintAuthority
    \/ \E s \in StartTimes, u \in Durations, c \in Capacities, o \in Credits :
          create_capital_call(s, u, c, o)
    \/ \E k \in CallKeys, d \in Depositors, a \in Amounts : deposit(k, d, a)
    \/ \E k \in CallKeys, d \in Depositors : refund(k, d)
    \/ \E k \in CallKeys : mint_lp_tokens(k)
    \/ \E k \in CallKeys, d \in Depositors : claim(k, d)
    \/ \E k \in CallKeys : close(k)

Spec == Init /\ [][Next]_vars

\* The program with deposits only: calls are created and deposited into
\* while the outside world moves, nothing is settled or closed.
NextDeposits ==
    \/ Tick
    \/ \E v \in PoolAmounts : PoolChange(v)
    \/ \E v \in LpSupplies : SupplyChange(v)
    \/ SetMintAuthority
    \/ \E s \in StartTimes, u \in Durations, c \in Capacities, o \in Credits :
          create_capital_call(s, u, c, o)
    \/ \E k \in CallKeys, d \in Depositors, a \in Amounts : deposit(k, d, a)

SpecDeposits == Init /\ [][NextDeposits]_vars

\* The program with capital calls that two depositors fill in equal parts.
NextEqual ==
    \/ Tick
    \/ \E v \in PoolAmounts : PoolChange(v)
    \/ \E v \in LpSupplies : SupplyChange(v)
    \/ SetMintAuthority
    \/ \E s \in StartTimes, u \in Durations, c \in EqualCapacities,
          o \in Credits : create_capital_call(s, u, c, o)
    \/ \E k \in EqualKeys, d \in Depositors, a \in EqualAmounts : deposit(k, d, a)
    \/ \E k \in EqualKeys, d \in Depositors : refund(k, d)
    \/ \E k \in EqualKeys : mint_lp_tokens(k)
    \/ \E k \in EqualKeys, d \in Depositors : claim(k, d)
    \/ \E k \in EqualKeys : close(k)

SpecEqual == Init /\ [][NextEqual]_vars

\* Two capital calls side by side, and refund and claim invoked with any
\* voucher account, the signer's own or not.
OwnerKeys == CallKeys \cup EqualKeys
OwnerVouchers == OwnerKeys \X Depositors
OwnerDurations == {1}
OwnerCredits == {0}

NextOwners ==
    \/ Tick
    \/ \E v \in LpSupplies : SupplyChange(v)
    \/ SetMintAuthority
    \/ \E k \in OwnerKeys, u \in OwnerDurations, o \in OwnerCredits :
          create_capital_call(k[1], u, k[2], o)
    \/ \E k \in OwnerKeys, d \in Depositors, a \in Amounts : deposit(k, d, a)
    \/ \E k \in OwnerKeys, d \in Depositors, va \in OwnerVouchers :
          refund_voucher(k, d, va)
    \/ \E k \in OwnerKeys : mint_lp_tokens(k)
    \/ \E k \in OwnerKeys, d \in Depositors, va \in OwnerVouchers :
          claim_voucher(k, d, va)
    \/ \E k \in OwnerKeys : close(k)

SpecOwners == Init /\ [][NextOwners]_vars

\* ----------------------------------------------------------------- claims
\* Sum of the amounts of the open vouchers of capital call k.
VoucherSum(k) == SumOver(Depositors, [d \in Depositors |-> vouchers[k][d].amount])

\* C1: in every reachable state of a capital call, after any sequence and
\* interleaving of deposits, allocated <= capacity.
C1_AllocatedWithinCapacity ==
    \A k \in Keys : calls[k].live => calls[k].allocated <= calls[k].capacity

\* A call that two depositors have filled, the second deposit clamped.
C1_Witness ==
    \E k \in Keys :
        /\ calls[k].live /\ last.op = "deposit" /\ last.k = k
        /\ calls[k].allocated = calls[k].capacity
        /\ \A d \in Depositors : vouchers[k][d].open
        /\ VoucherSum(k) = calls[k].allocated

\* C2: across every sequence of create, deposit, refund, convert, claim and
\* close (closing a call and creating it again included), redeemed never
\* decreases and redeemed <= allocated in every reachable state.
C2_RedeemedMonotoneWithinAllocated ==
    [][\A k \in Keys :
          /\ calls'[k].live => calls'[k].redeemed <= calls'[k].allocated
          /\ (calls[k].live /\ calls'[k].live)
                => calls'[k].redeemed >= calls[k].redeemed]_vars

\* C3: close succeeds only when no obligation is outstanding: a call that
\* was never converted is closed only with redeemed = allocated and with no
\* voucher of it still open, before end_time as well as after it.
C3_CloseOnlyWhenSettled ==
    [][\A k \in Keys :
          (/\ calls[k].live /\ ~calls[k].is_lp_minted
           /\ last'.op = "close" /\ last'.k = k /\ ~calls'[k].live)
             => /\ calls[k].redeemed = calls[k].allocated
                /\ \A d \in Depositors : ~vouchers[k][d].open]_vars

\* C4: the conversion is performed at most once per capital call; every
\* later mint_lp_tokens returns success and leaves the capital call, the
\* escrow balances and the LP supply unchanged.
C4_ConvertOnce ==
    [][\A k \in Keys :
          (calls[k].live /\ calls[k].is_lp_minted) =>
             /\ MintErr(k) = "NoOp"
             /\ calls'[k].live => calls'[k].is_lp_minted
             /\ (last'.op = "mint_lp_tokens" /\ last'.k = k)
                   => /\ last'.res = "NoOp"
                      /\ UNCHANGED <<calls, vault, lpTokenPool, lpMint>>]_vars

\* C5: each voucher is settled by at most one operation: a refund or a claim
\* pays out against an open voucher and destroys it, a refund pays no LP
\* tokens and a claim no funds, and a depositor is paid by nothing else.
C5_SettledOnce ==
    [][\A k \in Keys, d \in Depositors :
          LET settles == last'.op \in {"refund", "claim"}
                           /\ last'.k = k /\ last'.d = d
          IN /\ settles => (vouchers[k][d].open /\ ~vouchers'[k][d].open)
             /\ (settles /\ last'.op = "refund")
                   => (lpBalance' = lpBalance /\ RefundErr(k, d)' # "Ok"
                       /\ ClaimErr(k, d)' # "Ok")
             /\ (settles /\ last'.op = "claim")
                   => (balance' = balance /\ RefundErr(k, d)' # "Ok"
                       /\ ClaimErr(k, d)' # "Ok")
             /\ balance'[d] > balance[d]
                   => (last'.op = "refund" /\ last'.d = d)
             /\ lpBalance'[d] > lpBalance[d]
                   => (last'.op = "claim" /\ last'.d = d)]_vars

\* A depositor has claimed LP tokens; the voucher is gone and can be neither
\* refunded nor claimed again.
C5_Witness ==
    \E k \in Keys, d \in Depositors :
        /\ last.op = "claim" /\ last.k = k /\ last.d = d /\ last.amt > 0
        /\ lpBalance[d] = last.amt
        /\ ~vouchers[k][d].open
        /\ calls[k].live /\ calls[k].redeemed > 0

\* An open voucher of k that a refund, a claim, or (the call being full) the
\* conversion followed by a claim can settle.
Settleable(k, d) ==
    /\ vouchers[k][d].open
    /\ calls[k].live
    /\ \/ RefundErr(k, d) = "Ok"
       \/ ClaimErr(k, d) = "Ok"
       \/ (calls[k].allocated = calls[k].capacity /\ ~calls[k].is_lp_minted)

\* C6: once the window has closed or the call has filled, an open voucher
\* can be settled by refund, or by convert and claim, and no step leaves it
\* open with neither way left.
C6_VoucherRecoverable ==
    [][\A k \in Keys, d \in Depositors :
          (/\ vouchers[k][d].open /\ calls[k].live
           /\ (now >= calls[k].end_time
                \/ calls[k].allocated = calls[k].capacity))
             => /\ Settleable(k, d)
                /\ vouchers'[k][d].open => Settleable(k, d)']_vars

\* C7: a successful deposit(amount) accepts exactly min(amount, capacity -
\* allocated): allocated grows by it, it moves from the depositor to the
\* vault, and the voucher records it.
C7_DepositAcceptsClamped ==
    [][\A k \in Keys, d \in Depositors :
          (last'.op = "deposit" /\ last'.k = k /\ last'.d = d) =>
             LET cap == calls[k].capacity
                 left == cap - calls[k].allocated
                 accepted == IF last'.amt < left THEN last'.amt ELSE left
             IN /\ calls'[k].allocated = calls[k].allocated + accepted
                /\ balance'[d] = balance[d] - accepted
                /\ vault'[k] = vault[k] + accepted
                /\ vouchers'[k][d] = [open |-> TRUE, amount |-> accepted]
                /\ deposit_amount([capacity |-> 1000000, allocated |-> 400000],
                                  1500000) = 600000]_vars

\* A deposit of 4 into a call with 1 left: 1 is accepted.
C7_Witness ==
    \E k \in Keys, d \in Depositors :
        /\ last = Result("deposit", k, d, 4, "Ok")
        /\ vouchers[k][d] = [open |-> TRUE, amount |-> 1]
        /\ balance[d] = InitBalance - 1
        /\ calls[k].allocated = calls[k].capacity
        /\ vault[k] = calls[k].capacity

\* The window of k is open, k is not full, and d can pay what a deposit of
\* `amount` would accept.
DepositWelcome(k, d, amount) ==
    /\ calls[k].live
    /\ calls[k].start_time <= now /\ now < calls[k].end_time
    /\ calls[k].allocated < calls[k].capacity
    /\ amount > 0
    /\ balance[d] >= deposit_amount(calls[k], amount)

C9_VouchersSumToAllocated ==
    \A k \in Keys :
        VoucherSum(k) = (IF calls[k].live THEN calls[k].allocated ELSE 0)

\* Two deposits, 2 and then 4 clamped to 1.
C9_Witness ==
    \E k \in Keys, d, e \in Depositors :
        /\ d # e
        /\ vouchers[k][d].amount = 2 /\ vouchers[k][e].amount = 1
        /\ last = Result("deposit", k, e, 4, "Ok")
        /\ calls[k].allocated = 3

\* C10: refund fails with CapitalCallIsFullyFunded whenever allocated =
\* capacity, before end_time or after it, fails with CapitalCallNotEnded
\* when allocated < capacity and now < end_time, and succeeds only when
\* allocated < capacity and now >= end_time.
C10_RefundErrors ==
    [][\A k \in Keys, d \in Depositors :
          LET cc == calls[k] IN
          /\ (cc.live /\ vouchers[k][d].open) =>
                /\ cc.allocated = cc.capacity
                      => RefundErr(k, d) = "CapitalCallIsFullyFunded"
                /\ (cc.allocated < cc.capacity /\ now < cc.end_time)
                      => RefundErr(k, d) = "CapitalCallNotEnded"
          /\ RefundErr(k, d) = "Ok"
                => (cc.allocated < cc.capacity /\ now >= cc.end_time)
          /\ (last'.op = "refund" /\ last'.k = k /\ last'.d = d)
                => (cc.allocated < cc.capacity /\ now >= cc.end_time)]_vars

\* A full call before its end_time: the voucher holder's refund is refused
\* as fully funded, not as not ended.
C10_Witness ==
    \E k \in Keys, d \in Depositors :
        /\ calls[k].live /\ vouchers[k][d].open
        /\ calls[k].allocated = calls[k].capacity
        /\ now < calls[k].end_time
        /\ RefundErr(k, d) = "CapitalCallIsFullyFunded"

\* C11: mint_lp_tokens returns success without changing anything whenever
\* the capital call is not fully raised or is already converted, whatever
\* the LP mint's supply and mint authority are.
C11_NoOpWhenNothingToDo ==
    \A k \in Keys :
        (calls[k].live /\ mint_early_exit(calls[k])) => MintErr(k) = "NoOp"

\* C12: a conversion mints exactly floor(capacity * (token_liquidity +
\* credit_outstanding) / lp_supply) LP tokens into the lp_token_pool, with
\* token_liquidity and lp_supply the liquidity pool's balance and the LP
\* mint's supply at that moment (in units of 100: capacity 10000,
\* token_liquidity 20000, credit_outstanding 5000, lp_supply 40000 mint
\* 6250).
C12_MintedAmount ==
    [][\A k \in Keys :
          (last'.op = "mint_lp_tokens" /\ last'.k = k /\ last'.res = "Ok") =>
             LET cc == calls[k]
                 minted == (cc.capacity * (liquidityPool + cc.credit_outstanding))
                              \div lpMint.supply
             IN /\ lpTokenPool'[k] = lpTokenPool[k] + minted
                /\ lpMint'.supply = lpMint.supply + minted
                /\ last'.amt = minted
                /\ calls'[k].token_liquidity = liquidityPool
                /\ calls'[k].lp_supply = lpMint.supply
                /\ to_lp_token_u128([token_liquidity |-> 20000,
                                     credit_outstanding |-> 5000,
                                     lp_supply |-> 40000], 10000) = 6250]_vars

\* A conversion of capacity 3 at liquidity 4, credit 1, supply 2: 15 / 2
\* truncates to 7 LP tokens in the lp_token_pool.
C12_Witness ==
    \E k \in Keys :
        /\ last = Result("mint_lp_tokens", k, NoOne, 7, "Ok")
        /\ calls[k].is_lp_minted
        /\ calls[k].token_liquidity = 4 /\ calls[k].credit_outstanding = 1
        /\ calls[k].lp_supply = 2
        /\ lpTokenPool[k] = 7 /\ lpMint.supply = 9

\* C13: claim pays floor(voucher.amount * (token_liquidity +
\* credit_outstanding) / lp_supply) of the values the capital call holds
\* since its conversion, which no step changes; two vouchers of equal amount
\* are paid the same, however the liquidity pool's balance and the LP supply
\* move between the conversion and each claim (in units of 100: amount 1000
\* under 20000 / 5000 / 40000 claims 625).
C13_ClaimAtFrozenPrice ==
    [][\A k \in Keys :
          LET cc == calls[k] IN
          /\ \A d \in Depositors :
                (last'.op = "claim" /\ last'.k = k /\ last'.d = d) =>
                   LET paid == (vouchers[k][d].amount
                                  * (cc.token_liquidity + cc.credit_outstanding))
                               \div cc.lp_supply
                   IN /\ lpBalance'[d] = lpBalance[d] + paid
                      /\ last'.amt = paid
          /\ (cc.live /\ cc.is_lp_minted /\ calls'[k].live) =>
                /\ calls'[k].token_liquidity = cc.token_liquidity
                /\ calls'[k].lp_supply = cc.lp_supply
                /\ calls'[k].credit_outstanding = cc.credit_outstanding
          /\ (calls'[k].live /\ calls'[k].is_lp_minted
              /\ calls'[k].redeemed = calls'[k].allocated) =>
                \A d, e \in Depositors : lpBalance'[d] = lpBalance'[e]
          /\ to_lp_token_u128([token_liquidity |-> 20000,
                               credit_outstanding |-> 5000,
                               lp_supply |-> 40000], 1000) = 625]_vars

\* Both depositors have claimed against vouchers of 2 and hold the same,
\* positive number of LP tokens, while the liquidity pool and the LP supply
\* are no longer what the conversion left.
C13_Witness ==
    \E k \in Keys :
        /\ calls[k].live /\ calls[k].is_lp_minted
        /\ calls[k].redeemed = calls[k].allocated
        /\ last.op = "claim" /\ last.k = k /\ last.amt > 0
        /\ \A d \in Depositors : ~vouchers[k][d].open /\ lpBalance[d] = last.amt
        /\ liquidityPool # calls[k].token_liquidity + calls[k].capacity
        /\ lpMint.supply
             # calls[k].lp_supply + to_lp_token(calls[k], calls[k].capacity).val

C15_OverflowLeavesUnconverted ==
    [][\A k \in Keys :
          LET cc == calls[k]
              ready == cc.live /\ mint_require = "Ok" /\ ~mint_early_exit(cc)
              fits == (cc.capacity * (liquidityPool + cc.credit_outstanding))
                          \div lpMint.supply <= MaxU64
          IN /\ ready => (MintErr(k) = "CalculationError" <=> ~fits)
             /\ MintErr(k) = "CalculationError" =>
                   /\ ~cc.is_lp_minted
                   /\ cc.token_liquidity = 0 /\ cc.lp_supply = 0
                   /\ lpTokenPool[k] = 0 /\ vault[k] = cc.capacity
                   /\ calls'[k].live =>
                         /\ ~calls'[k].is_lp_minted
                         /\ calls'[k].token_liquidity = 0
                         /\ calls'[k].lp_supply = 0
                         /\ lpTokenPool'[k] = 0
                         /\ vault'[k] = cc.capacity]_vars

\* A full call while the pool holds 4 and the supply is 1: 3 * (4 + 1) / 1
\* is more than the largest u64, and the capital is still in the vault.
C15_Witness ==
    \E k \in Keys :
        /\ calls[k].live /\ calls[k].allocated = calls[k].capacity
        /\ ~calls[k].is_lp_minted
        /\ liquidityPool = 4 /\ lpMint.supply = 1 /\ lpMint.authority_ok
        /\ calls[k].credit_outstanding = 1
        /\ MintErr(k) = "CalculationError"
        /\ vault[k] = calls[k].capacity

\* C16: token_liquidity and lp_supply are 0 for as long as is_lp_minted is
\* false, and once is_lp_minted is true no step changes token_liquidity,
\* lp_supply, credit_outstanding or is_lp_minted of the capital call.
C16_SnapshotZeroThenFixed ==
    [][\A k \in Keys :
          LET cc == calls'[k] IN
          /\ (cc.live /\ ~cc.is_lp_minted)
                => (cc.token_liquidity = 0 /\ cc.lp_supply = 0)
          /\ (calls[k].live /\ calls[k].is_lp_minted /\ cc.live)
                => /\ cc.is_lp_minted
                   /\ cc.token_liquidity = calls[k].token_liquidity
                   /\ cc.lp_supply = calls[k].lp_supply
                   /\ cc.credit_outstanding = calls[k].credit_outstanding]_vars

\* A converted call with a snapshot that is not zero, a depositor paid from
\* it, and the liquidity pool drained below it since.
C16_Witness ==
    \E k \in Keys, d \in Depositors :
        /\ calls[k].live /\ calls[k].is_lp_minted
        /\ calls[k].token_liquidity > 0 /\ calls[k].lp_supply > 0
        /\ calls[k].credit_outstanding > 0
        /\ calls[k].redeemed > 0 /\ vouchers[k][d].open
        /\ liquidityPool < calls[k].token_liquidity
        /\ last.op = "pool"

\* C17: a deposit succeeds only when start_time <= now < end_time, allocated
\* < capacity and amount > 0; a deposit that passes account validation fails
\* with CapitalCallNotStarted (now < start_time), else CapitalCallEnded (now
\* >= end_time), else CapitalCallAlreadyFullyFunded (allocated = capacity),
\* else AmountNonZero (amount = 0); no deposit is accepted into a full or a
\* converted call.
C17_DepositErrors ==
    \A k \in Keys, d \in Depositors :
        LET cc == calls[k] IN
        /\ \A a \in Amounts :
              /\ (cc.live /\ ~vouchers[k][d].open) =>
                    DepositErr(k, d, a) =
                       IF now < cc.start_time THEN "CapitalCallNotStarted"
                       ELSE IF now >= cc.end_time THEN "CapitalCallEnded"
                       ELSE IF cc.allocated = cc.capacity
                            THEN "CapitalCallAlreadyFullyFunded"
                       ELSE IF a = 0 THEN "AmountNonZero"
                       ELSE IF balance[d] < Min(a, cc.capacity - cc.allocated)
                            THEN "InsufficientFunds"
                       ELSE "Ok"
              /\ DepositErr(k, d, a) = "Ok" =>
                    /\ cc.start_time <= now /\ now < cc.end_time
                    /\ cc.allocated < cc.capacity /\ a > 0
                    /\ ~cc.is_lp_minted
        \* the state a deposit has just been accepted in
        /\ (last.op = "deposit" /\ last.k = k /\ last.d = d) =>
              /\ cc.live /\ ~cc.is_lp_minted
              /\ cc.start_time <= now /\ now < cc.end_time
              /\ last.amt > 0
              /\ vouchers[k][d].amount > 0
              /\ cc.allocated - vouchers[k][d].amount < cc.capacity

\* A full call after its end_time and a depositor without a voucher: a
\* deposit of 0 is refused as ended, not as fully funded or zero.
C17_Witness ==
    \E k \in Keys, d \in Depositors :
        /\ calls[k].live /\ ~vouchers[k][d].open
        /\ calls[k].allocated = calls[k].capacity
        /\ now >= calls[k].end_time
        /\ DepositErr(k, d, 0) = "CapitalCallEnded"
        /\ last.op = "tick"

\* C18: create_capital_call fails with StartTimeMustBeInFuture if start_time
\* < now, with DurationNonZero if duration = 0 and with CapacityNonZero if
\* capacity = 0; the record it creates has end_time = start_time + duration,
\* so end_time > start_time, allocated = redeemed = token_liquidity =
\* lp_supply = 0, is_lp_minted false and the credit_outstanding supplied.
C18_CreateErrorsAndRecord ==
    /\ \A s \in StartTimes, u \in Durations, c \in Capacities :
          LET e == CreateErr(<<s, c>>, s, u, c) IN
          ~calls[<<s, c>>].live =>
             /\ s < now => e = "StartTimeMustBeInFuture"
             /\ (s >= now /\ u = 0) => e = "DurationNonZero"
             /\ (s >= now /\ u > 0 /\ c = 0) => e = "CapacityNonZero"
             /\ (s >= now /\ u > 0 /\ c > 0) => e = "Ok"
    /\ \A k \in Keys :
          (last.op = "create_capital_call" /\ last.k = k) =>
             LET cc == calls[k] IN
             /\ cc.live /\ cc.start_time = k[1] /\ cc.capacity = k[2]
             /\ cc.start_time >= now /\ cc.capacity > 0
             /\ \E u \in Durations :
                   u > 0 /\ cc.end_time = cc.start_time + u
             /\ cc.end_time > cc.start_time
             /\ cc.allocated = 0 /\ cc.redeemed = 0
             /\ cc.token_liquidity = 0 /\ cc.lp_supply = 0
             /\ ~cc.is_lp_minted
             /\ cc.credit_outstanding \in Credits

\* C19: a claim on a call that is not converted fails with LpTokenNotMinted;
\* a claim that succeeds adds voucher.amount (the tokens deposited, not the
\* LP tokens paid) to redeemed, moves lp_amount LP tokens from the
\* lp_token_pool to the depositor and closes the voucher.
C19_ClaimEffect ==
    [][\A k \in Keys, d \in Depositors :
          LET cc == calls[k]
              v == vouchers[k][d]
          IN /\ (cc.live /\ v.open /\ ~cc.is_lp_minted)
                   => ClaimErr(k, d) = "LpTokenNotMinted"
             /\ (last'.op = "claim" /\ last'.k = k /\ last'.d = d) =>
                   /\ cc.is_lp_minted /\ v.open
                   /\ calls'[k] = [cc EXCEPT !.redeemed = cc.redeemed + v.amount]
                   /\ lpTokenPool'[k] = lpTokenPool[k] - last'.amt
                   /\ lpBalance'[d] = lpBalance[d] + last'.amt
                   /\ last'.amt = to_lp_token(cc, v.amount).val
                   /\ ~vouchers'[k][d].open
                   /\ UNCHANGED <<vault, balance, destination, liquidityPool,
                                  lpMint>>]_vars

\* A voucher of 2 has been claimed for 3 LP tokens: redeemed is 2.
C19_Witness ==
    \E k \in Keys, d \in Depositors :
        /\ last = Result("claim", k, d, 3, "Ok")
        /\ calls[k].live /\ calls[k].is_lp_minted
        /\ calls[k].redeemed = 2
        /\ ~vouchers[k][d].open
        /\ lpBalance[d] = 3

\* C20: close of a converted call fails with LpTokensHasToBeFullyDistributed
\* unless redeemed = allocated, so it succeeds only after every voucher of
\* the call has been claimed; when it succeeds it sweeps what the vault
\* holds, burns what the lp_token_pool holds and destroys the capital call.
C20_CloseConverted ==
    [][\A k \in Keys :
          LET cc == calls[k] IN
          /\ (cc.live /\ cc.is_lp_minted /\ cc.redeemed # cc.allocated)
                => CloseErr(k) = "LpTokensHasToBeFullyDistributed"
          /\ (/\ cc.live /\ cc.is_lp_minted
              /\ last'.op = "close" /\ last'.k = k /\ ~calls'[k].live) =>
                /\ cc.redeemed = cc.allocated
                /\ \A d \in Depositors : ~vouchers[k][d].open
                /\ destination' = destination + vault[k]
                /\ vault'[k] = 0
                /\ lpMint'.supply = lpMint.supply - lpTokenPool[k]
                /\ lpTokenPool'[k] = 0
                /\ calls'[k] = NoCall]_vars

\* C21: only the depositor who owns a voucher settles it: a refund or a
\* claim signed by a depositor fails when another depositor's voucher, or a
\* voucher of another capital call, is passed, and a refund or claim that
\* succeeds leaves every voucher but the signer's own voucher of that call
\* as it was.
C21_OnlyOwnerSettles ==
    [][/\ \A k \in OwnerKeys, d \in Depositors, va \in OwnerVouchers :
             va # <<k, d>> =>
                (RefundErrOn(k, d, va) # "Ok" /\ ClaimErrOn(k, d, va) # "Ok")
       /\ last'.op \in {"refund", "claim"} =>
             \A k \in Keys, d \in Depositors :
                <<k, d>> # <<last'.k, last'.d>>
                   => vouchers'[k][d] = vouchers[k][d]]_vars

\* Alice has claimed her LP tokens of one call while Bob's voucher of that
\* call and Bob's voucher of the other call are open; Alice's claim with
\* either of them is refused.
C21_Witness ==
    \E k, j \in OwnerKeys, a, b \in Depositors :
        /\ k # j /\ a # b
        /\ last.op = "claim" /\ last.k = k /\ last.d = a
        /\ ~vouchers[k][a].open
        /\ vouchers[k][b].open /\ vouchers[j][b].open
        /\ ClaimErrOn(k, a, <<k, b>>) = "ConstraintSeeds"
        /\ ClaimErrOn(k, a, <<j, b>>) = "ConstraintSeeds"

\* C22: refund and conversion exclude each other for as long as a capital
\* call exists.  A refund succeeds only in a call that has ended unfilled,
\* and such a call stays ended and unfilled: no deposit is accepted, and
\* mint_lp_tokens converts nothing.  A call that is filled or converted
\* stays so, and no refund of it succeeds.
C22_RefundExcludesConversion ==
    [][\A k \in CallKeys :
          LET cc == calls[k]
              unfilled == /\ cc.live /\ ~cc.is_lp_minted
                          /\ cc.allocated < cc.capacity /\ now >= cc.end_time
              filled == cc.live /\ (cc.allocated = cc.capacity \/ cc.is_lp_minted)
          IN /\ (last'.op = "refund" /\ last'.k = k) => unfilled
             /\ (cc.live /\ ~cc.is_lp_minted /\ cc.redeemed > 0) => unfilled
             /\ (cc.live /\ unfilled) =>
                   /\ MintErr(k) # "Ok"
                   /\ \A d \in Depositors, a \in Amounts : DepositErr(k, d, a) # "Ok"
                   /\ calls'[k].live =>
                         /\ ~calls'[k].is_lp_minted
                         /\ calls'[k].allocated < calls'[k].capacity
                         /\ now' >= calls'[k].end_time
             /\ (cc.live /\ filled) =>
                   /\ \A d \in Depositors : RefundErr(k, d) # "Ok"
                   /\ ~(last'.op = "refund" /\ last'.k = k /\ vault'[k] # vault[k])
                   /\ calls'[k].live =>
                         \/ calls'[k].allocated = calls'[k].capacity
                         \/ calls'[k].is_lp_minted]_vars

\* A depositor has been refunded from a call that ended unfilled; the mint
\* is ready, mint_lp_tokens on the call is a no-op, and a deposit is refused
\* as ended.
C22_Witness ==
    \E k \in Keys, d, e \in Depositors :
        /\ d # e
        /\ last.op = "refund" /\ last.k = k /\ last.d = d
        /\ calls[k].live /\ calls[k].redeemed > 0
        /\ calls[k].allocated < calls[k].capacity
        /\ mint_require = "Ok" /\ MintErr(k) = "NoOp"
        /\ DepositErr(k, e, 2) = "CapitalCallEnded"

\* LP tokens the open vouchers of capital call k claim at its stored price.
ClaimsDue(k) ==
    SumOver(Depositors,
            [d \in Depositors |->
                IF vouchers[k][d].open
                THEN to_lp_token_u128(calls[k], vouchers[k][d].amount)
                ELSE 0])

\* C23: the LP tokens in the lp_token_pool of a converted call cover every
\* claim: what its open vouchers claim together is no more than the pool
\* holds (the sum of the truncated shares is at most the truncated whole),
\* so no claim fails for lack of LP tokens, in any order, and what close
\* burns is what is left, never less than 0.
C23_PoolCoversClaims ==
    \A k \in Keys :
        (calls[k].live /\ calls[k].is_lp_minted) =>
           /\ ClaimsDue(k) <= lpTokenPool[k]
           /\ \A d \in Depositors :
                 vouchers[k][d].open => ClaimErr(k, d) = "Ok"

C25_ConvertedHasSupply ==
    /\ [](\A k \in CallKeys :
             LET cc == calls[k] IN
             /\ (cc.live /\ cc.is_lp_minted) =>
                   /\ cc.allocated = cc.capacity
                   /\ cc.lp_supply > 0
                   /\ \A d \in Depositors :
                         vouchers[k][d].open => ClaimErr(k, d) # "DivideByZero"
             /\ (cc.live /\ ~cc.is_lp_minted /\ cc.allocated = cc.capacity
                    /\ lpMint.supply = 0) =>
                   /\ MintErr(k) \in {"InvalidLpMintAuthority",
                                      "LpTokenSupplyNonZero"}
                   /\ lpMint.authority_ok =>
                         MintErr(k) = "LpTokenSupplyNonZero")
    /\ [][\A k \in CallKeys :
             (calls[k].live /\ ~calls[k].is_lp_minted /\ lpMint.supply = 0)
                 => ~calls'[k].is_lp_minted]_vars

\* A call has just been converted at a supply above 0 and one of its
\* vouchers is open, to be claimed at that supply.
C25_Witness ==
    \E k \in CallKeys, d \in Depositors :
        /\ last.op = "mint_lp_tokens" /\ last.k = k /\ last.res = "Ok"
        /\ calls[k].live /\ calls[k].is_lp_minted
        /\ calls[k].lp_supply > 0
        /\ vouchers[k][d].open /\ ClaimErr(k, d) = "Ok"

====
